---------------------------- MODULE Spec2Model ----------------------------
(***************************************************************************)
(* A model of src/Evaluator.py: one run of evaluate_proposal(text,          *)
(* required_sections, doc), with formatting_check(doc) as the step it       *)
(* calls.                                                                   *)
(*                                                                          *)
(* Representation.                                                          *)
(*   - A Python str is a tuple of one-character strings, so that            *)
(*     str.lower() and the `in` substring test are computed, not assumed.   *)
(*   - A python-docx paragraph is [text, style, runs]; a run is             *)
(*     [name, size] (run.font.name, run.font.size.pt).  A falsy name        *)
(*     (None or '') is the empty tuple NoName; a falsy size (None or a      *)
(*     zero length) is NoSize.                                              *)
(*   - The ordered dict section_results is a sequence of [label, found]     *)
(*     entries in insertion order, written with the dict's update rule.     *)
(*   - A float is the exact rational [num, den].  The floats of lines       *)
(*     45-71 agree with the exact rationals, rounding included, for every   *)
(*     required-section list shorter than 25 labels (the program's own      *)
(*     list has 9); the model's lists are far shorter.                      *)
(*   - spell.unknown(words) is the dictionary service's answer for the      *)
(*     document: a set of tokens, here numbered 1..n.  list(set)[:15]       *)
(*     keeps the tokens that come first in Python's set order, which the    *)
(*     program does not control: any DisplayCap of them may survive.        *)
(***************************************************************************)
EXTENDS Integers, Sequences, FiniteSets

VARIABLES pc, doc, required_sections, misspelled, section_results,
          section_percentage, formatting_results, spelling_score,
          total_score, recommendations, error

vars == <<pc, doc, required_sections, misspelled, section_results,
          section_percentage, formatting_results, spelling_score,
          total_score, recommendations, error>>

(***************************************************************************)
(* Bounds of the model.                                                     *)
(***************************************************************************)
\* paragraphs in a document
MaxParas == 2
\* runs in a whole document
MaxRuns == 2
\* characters of a paragraph's text
MaxTextLen == 2
\* labels in a required-section list
MaxSections == 2
\* distinct unknown tokens the dictionary service reports
MaxUnknown == 16

(***************************************************************************)
(* Program constants.                                                       *)
(***************************************************************************)
\* spelling_issues = list(misspelled)[:15]
DisplayCap == 15
\* run.font.size.pt != 11
BodySize == 11
\* a falsy run.font.size
NoSize == 0
\* a falsy run.font.name
NoName == <<>>
\* the literal "tenorite" of the font comparison
TenoriteLower == <<"t", "e", "n", "o", "r", "i", "t", "e">>
\* the paragraph styles exempt from the size check
HeadingStyles == {"Heading 1", "Heading 2", "Heading 3"}

(***************************************************************************)
(* str.lower() and the substring test.                                      *)
(***************************************************************************)
UpperLetters == <<"A", "B", "C", "D", "E", "F", "G", "H", "I", "J", "K", "L", "M",
                  "N", "O", "P", "Q", "R", "S", "T", "U", "V", "W", "X", "Y", "Z">>
LowerLetters == <<"a", "b", "c", "d", "e", "f", "g", "h", "i", "j", "k", "l", "m",
                  "n", "o", "p", "q", "r", "s", "t", "u", "v", "w", "x", "y", "z">>

LowerChar(c) ==
    IF \E i \in 1..Len(UpperLetters) : UpperLetters[i] = c
    THEN LowerLetters[CHOOSE i \in 1..Len(UpperLetters) : UpperLetters[i] = c]
    ELSE c

Lower(s) == [i \in 1..Len(s) |-> LowerChar(s[i])]

\* needle in hay
StrIn(needle, hay) ==
    \E i \in 0..(Len(hay) - Len(needle)) :
        SubSeq(hay, i + 1, i + Len(needle)) = needle

(***************************************************************************)
(* Lines 38-45: the section presence check.                                 *)
(***************************************************************************)
\* variant: the two .lower() calls left out
SectionFound_CaseSensitive(sec, d) ==
    \E p \in 1..Len(d) : StrIn(sec, d[p].text)

\* any(sec.lower() in para.text.lower() for para in doc.paragraphs)
SectionFound(sec, d) ==
    \E p \in 1..Len(d) : StrIn(Lower(sec), Lower(d[p].text))

\* section_results[sec] = found, on an insertion-ordered dict
DictSet(dict, key, value) ==
    IF \E i \in 1..Len(dict) : dict[i].label = key
    THEN [i \in 1..Len(dict) |->
            IF dict[i].label = key THEN [label |-> key, found |-> value]
            ELSE dict[i]]
    ELSE Append(dict, [label |-> key, found |-> value])

RECURSIVE SectionLoop(_, _, _, _)
SectionLoop(req, d, i, dict) ==
    IF i > Len(req) THEN dict
    ELSE SectionLoop(req, d, i + 1, DictSet(dict, req[i], SectionFound(req[i], d)))

\* variant: len(section_results) in place of the sum
SectionScore_CountsEntries(dict) == Len(dict)

\* sum(section_results.values())
SectionScore(dict) == Cardinality({i \in 1..Len(dict) : dict[i].found})

(***************************************************************************)
(* Lines 95-122: formatting_check.                                          *)
(***************************************************************************)
Min(a, b) == IF a < b THEN a ELSE b
Max(a, b) == IF a > b THEN a ELSE b

\* the subsets of S with k elements
RECURSIVE KSubsets(_, _)
KSubsets(S, k) ==
    IF k = 0 THEN {{}}
    ELSE IF Cardinality(S) < k THEN {}
    ELSE LET x == CHOOSE y \in S : TRUE
         IN  KSubsets(S \ {x}, k) \cup {T \cup {x} : T \in KSubsets(S \ {x}, k - 1)}

\* variant: a cap of 5, keeping the first tokens
Capped_AtFive(unknown) == {{x \in unknown : x <= 5}}

\* list(misspelled)[:15]: every outcome set order allows
Capped(unknown) == KSubsets(unknown, Min(Cardinality(unknown), DisplayCap))

\* variant: the `run.font.name and` guard left out
FontViolation_AbsentFlagged(run) == Lower(run.name) # TenoriteLower

\* run.font.name and run.font.name.lower() != "tenorite"
FontViolation(run) == run.name # NoName /\ Lower(run.name) # TenoriteLower

\* run.font.size and run.font.size.pt != 11, outside Heading 1/2/3
SizeViolation(run, style) ==
    /\ run.size # NoSize
    /\ run.size # BodySize
    /\ style \notin HeadingStyles

\* the inner loop over para.runs
RECURSIVE ScanRuns(_, _, _, _)
ScanRuns(runs, style, i, flags) ==
    IF i > Len(runs) THEN flags
    ELSE ScanRuns(runs, style, i + 1,
            [font_ok |-> IF FontViolation(runs[i]) THEN FALSE ELSE flags.font_ok,
             font_size_ok |-> IF SizeViolation(runs[i], style) THEN FALSE
                              ELSE flags.font_size_ok])

\* if not font_ok or not font_size_ok: break
BreakScan(flags) == ~flags.font_ok \/ ~flags.font_size_ok

\* the outer loop over doc.paragraphs
RECURSIVE ScanParas(_, _, _)
ScanParas(d, p, flags) ==
    IF p > Len(d) THEN flags
    ELSE LET after == ScanRuns(d[p].runs, d[p].style, 1, flags)
         IN  IF BreakScan(after) THEN after ELSE ScanParas(d, p + 1, after)

FontFlags(d) == ScanParas(d, 1, [font_ok |-> TRUE, font_size_ok |-> TRUE])

(***************************************************************************)
(* Lines 50-71: the score.                                                  *)
(***************************************************************************)
\* exact rationals
Frac(n, d) == [num |-> n, den |-> d]
FracAdd(a, b) == Frac(a.num * b.den + b.num * a.den, a.den * b.den)
FracMul(a, b) == Frac(a.num * b.num, a.den * b.den)

\* round(x) of a non-negative x: to the nearest integer, a tie to the even one
Round(x) ==
    LET q == x.num \div x.den
        r == x.num % x.den
    IN  IF 2 * r < x.den THEN q
        ELSE IF 2 * r > x.den THEN q + 1
        ELSE IF q % 2 = 0 THEN q ELSE q + 1

\* lines 58-62
SpellingScore(issues) ==
    IF Cardinality(issues) = 0 THEN 100
    ELSE Max(0, 100 - Cardinality(issues) * 10)

\* lines 66-67
FontStyleScore(fmt) == IF fmt.font_ok THEN 100 ELSE 0
FontSizeScore(fmt) == IF fmt.font_size_ok THEN 100 ELSE 0

\* variant: the two font scores averaged, so that the font term is 25 points
WeightedTotal_FontAveraged(pct, fmt) ==
    FracAdd(FracAdd(FracMul(pct, Frac(1, 2)),
                    Frac(SpellingScore(fmt.spelling_issues), 4)),
            Frac(FontStyleScore(fmt) + FontSizeScore(fmt), 8))

\* lines 51-68: the three weighted terms, summed
WeightedTotal(pct, fmt) ==
    FracAdd(FracAdd(FracMul(pct, Frac(1, 2)),
                    FracMul(Frac(SpellingScore(fmt.spelling_issues), 1), Frac(1, 4))),
            FracMul(Frac(FontStyleScore(fmt) + FontSizeScore(fmt), 1), Frac(1, 4)))

(***************************************************************************)
(* Lines 73-86: the recommendations.  A recommendation string is            *)
(* [kind, labels]: which of the four fixed texts it is, and for the         *)
(* missing-sections string the labels it joins with ', ', in order.         *)
(***************************************************************************)
\* [sec for sec, present in section_results.items() if not present]
MissingSections(dict) ==
    SelectSeq(dict, LAMBDA e : ~e.found)

Labels(entries) == [i \in 1..Len(entries) |-> entries[i].label]

Rec(kind, labels) == [kind |-> kind, labels |-> labels]

\* variant: the font-family test moved to the front
Recommendations_FontFirst(dict, fmt) ==
       (IF ~fmt.font_ok THEN <<Rec("font", <<>>)>> ELSE <<>>)
    \o (IF MissingSections(dict) # <<>>
        THEN <<Rec("missing", Labels(MissingSections(dict)))>> ELSE <<>>)
    \o (IF fmt.spelling_issues # {} THEN <<Rec("spelling", <<>>)>> ELSE <<>>)
    \o (IF ~fmt.font_size_ok THEN <<Rec("size", <<>>)>> ELSE <<>>)

\* lines 75-86
Recommendations(dict, fmt) ==
       (IF MissingSections(dict) # <<>>
        THEN <<Rec("missing", Labels(MissingSections(dict)))>> ELSE <<>>)
    \o (IF fmt.spelling_issues # {} THEN <<Rec("spelling", <<>>)>> ELSE <<>>)
    \o (IF ~fmt.font_ok THEN <<Rec("font", <<>>)>> ELSE <<>>)
    \o (IF ~fmt.font_size_ok THEN <<Rec("size", <<>>)>> ELSE <<>>)

(***************************************************************************)
(* The inputs of a run.  Three families of inputs are explored: documents   *)
(* rich in runs and styles, documents rich in text against every            *)
(* required-section list, and every score the rubric can produce.  A        *)
(* required-section list is a RequiredSectionSet of the data model: its     *)
(* labels are distinct; the empty list is included.                         *)
(***************************************************************************)
Tenorite == <<"T", "e", "n", "o", "r", "i", "t", "e">>
Arial == <<"A", "r", "i", "a", "l">>

FontNames == {NoName, Tenorite, Arial}
FontSizes == {NoSize, BodySize, BodySize + 1}
Runs == [name : FontNames, size : FontSizes]
Styles == HeadingStyles \cup {"Normal", "Title"}

TextChars == {"a", "B"}
Texts == UNION {[1..n -> TextChars] : n \in 0..MaxTextLen}
SectionLabels == {<<"A", "b">>, <<"B">>, <<"a", "a">>}

Para(t, s, r) == [text |-> t, style |-> s, runs |-> r]

RECURSIVE SumTo(_, _)
SumTo(counts, p) == IF p = 0 THEN 0 ELSE counts[p] + SumTo(counts, p - 1)

\* the document whose paragraph p has texts[p], styles[p] and the next
\* counts[p] of the runs
DocOf(texts, styles, counts, runs) ==
    [p \in 1..Len(counts) |->
        Para(texts[p], styles[p],
             SubSeq(runs, SumTo(counts, p - 1) + 1, SumTo(counts, p)))]

\* the sequences of distinct labels, at most n long
RECURSIVE DistinctLists(_, _)
DistinctLists(labels, n) ==
    IF n = 0 THEN {<<>>}
    ELSE {<<>>} \cup
         UNION {{<<l>> \o rest : rest \in DistinctLists(labels \ {l}, n - 1)} :
                    l \in labels}

RequiredLists == DistinctLists(SectionLabels, MaxSections)

\* documents of at most MaxParas paragraphs and MaxRuns runs in all, in the
\* styles Heading 1 and Normal, or in any style when of one paragraph
InitFormatting ==
    \E n \in 0..MaxParas :
      \E styles \in [1..n -> Styles] :
        /\ n > 1 => \A p \in 1..n : styles[p] \in {"Heading 1", "Normal"}
        /\ \E counts \in [1..n -> 0..MaxRuns] :
            /\ SumTo(counts, n) <= MaxRuns
            /\ \E runs \in [1..SumTo(counts, n) -> Runs] :
                 doc = DocOf([p \in 1..n |-> <<"a">>], styles, counts, runs)
    /\ required_sections = <<<<"B">>>>
    /\ misspelled = {}

\* documents of at most MaxParas paragraphs of text, against every
\* required-section list
InitSections ==
    /\ \E n \in 0..MaxParas :
         \E texts \in [1..n -> Texts] :
            doc = DocOf(texts, [p \in 1..n |-> "Normal"], [p \in 1..n |-> 0], <<>>)
    /\ required_sections \in RequiredLists
    /\ misspelled = {}

\* one paragraph of one run, against every required-section list and every
\* number of unknown tokens
InitScoring ==
    /\ \E t \in {<<"a", "B">>, <<"a", "a">>} :
         \E r \in Runs : doc = <<Para(t, "Normal", <<r>>)>>
    /\ required_sections \in RequiredLists
    /\ \E n \in 0..MaxUnknown : misspelled = 1..n

(***************************************************************************)
(* The run: evaluate_proposal is called, checks the sections, calls         *)
(* formatting_check, scores, and returns the result with its                *)
(* recommendations.                                                         *)
(***************************************************************************)
Init ==
    /\ InitFormatting \/ InitSections \/ InitScoring
    /\ pc = "called"
    /\ section_results = <<>>
    /\ section_percentage = Frac(0, 1)
    /\ formatting_results =
            [spelling_issues |-> {}, font_ok |-> TRUE, font_size_ok |-> TRUE]
    /\ spelling_score = 0
    /\ total_score = Frac(0, 1)
    /\ recommendations = <<>>
    /\ error = "none"

\* lines 38-45 with a non-empty list
SectionCheck ==
    /\ pc = "called"
    /\ Len(required_sections) # 0
    /\ LET dict == SectionLoop(required_sections, doc, 1, <<>>)
       IN  /\ section_results' = dict
           /\ section_percentage' =
                FracMul(Frac(SectionScore(dict), Len(required_sections)), Frac(100, 1))
    /\ pc' = "sections"
    /\ UNCHANGED <<doc, required_sections, misspelled, formatting_results,
                   spelling_score, total_score, recommendations, error>>

\* lines 38-45 with an empty list: the division of line 45 raises
SectionCheckDividesByZero ==
    /\ pc = "called"
    /\ Len(required_sections) = 0
    /\ section_results' = SectionLoop(required_sections, doc, 1, <<>>)
    /\ error' = "ZeroDivisionError"
    /\ pc' = "raised"
    /\ UNCHANGED <<doc, required_sections, misspelled, section_percentage,
                   formatting_results, spelling_score, total_score,
                   recommendations>>

\* line 48: formatting_results = formatting_check(doc)
FormattingCheck ==
    /\ pc = "sections"
    /\ \E issues \in Capped(misspelled) :
            formatting_results' =
                [spelling_issues |-> issues,
                 font_ok |-> FontFlags(doc).font_ok,
                 font_size_ok |-> FontFlags(doc).font_size_ok]
    /\ pc' = "formatted"
    /\ UNCHANGED <<doc, required_sections, misspelled, section_results,
                   section_percentage, spelling_score, total_score,
                   recommendations, error>>

\* lines 50-71
ScoreCalc ==
    /\ pc = "formatted"
    /\ spelling_score' = SpellingScore(formatting_results.spelling_issues)
    /\ total_score' =
            Frac(Round(WeightedTotal(section_percentage, formatting_results)), 1)
    /\ pc' = "scored"
    /\ UNCHANGED <<doc, required_sections, misspelled, section_results,
                   section_percentage, formatting_results, recommendations, error>>

\* lines 73-93
Recommend ==
    /\ pc = "scored"
    /\ recommendations' = Recommendations(section_results, formatting_results)
    /\ pc' = "returned"
    /\ UNCHANGED <<doc, required_sections, misspelled, section_results,
                   section_percentage, formatting_results, spelling_score,
                   total_score, error>>

Next ==
    \/ SectionCheck
    \/ SectionCheckDividesByZero
    \/ FormattingCheck
    \/ ScoreCalc
    \/ Recommend

Spec == Init /\ [][Next]_vars

\* the result dictionary of line 88, once returned
Returned == pc = "returned"
score == total_score.num

(***************************************************************************)
(* The properties.  They are stated over the inputs and the result, with    *)
(* the substring test and the run predicates written out again here         *)
(* rather than taken from the operators of the run.                         *)
(***************************************************************************)
SectionsDone == pc \in {"sections", "formatted", "scored", "returned"}
Formatted == pc \in {"formatted", "scored", "returned"}
Scored == pc \in {"scored", "returned"}

\* label occurs, letter case aside, at some offset of text
Occurs(label, text) ==
    \E a \in 0..Len(text) :
        /\ a + Len(label) <= Len(text)
        /\ \A j \in 1..Len(label) : LowerChar(text[a + j]) = LowerChar(label[j])

\* label occurs in one paragraph of the document
Matches(label) == \E p \in 1..Len(doc) : Occurs(label, doc[p].text)

\* the runs of the document, as <<paragraph, run>> positions
RunPositions == UNION {{<<p, r>> : r \in 1..Len(doc[p].runs)} : p \in 1..Len(doc)}
RunAt(pos) == doc[pos[1]].runs[pos[2]]
StyleAt(pos) == doc[pos[1]].style

ForeignFont(pos) == RunAt(pos).name # <<>> /\ Lower(RunAt(pos).name) # Lower(Tenorite)
OffSize(pos) == RunAt(pos).size # 0 /\ RunAt(pos).size # 11
IsHeading(pos) == StyleAt(pos) \in {"Heading 1", "Heading 2", "Heading 3"}

\* the place of a recommendation in the fixed order
RecRank(kind) ==
    CASE kind = "missing" -> 1
      [] kind = "spelling" -> 2
      [] kind = "font" -> 3
      [] kind = "size" -> 4

\* the kinds of the returned recommendations
RecKinds == {recommendations[i].kind : i \in 1..Len(recommendations)}

\* label is recorded absent in the sections mapping
RecordedMissing(label) ==
    \E i \in 1..Len(section_results) :
        section_results[i].label = label /\ ~section_results[i].found

\* C1: the score of a returned result is a number in [0,100].
C1_ScoreWithinZeroAndHundred ==
    Returned => (score >= 0 /\ score <= 100)

\* C2: a call with an empty required-section list ends in a
\* ConfigurationError, raised before the division by the list's length, and
\* returns no result.
C2_EmptyListRaisesConfigurationError ==
    (required_sections = <<>> /\ pc # "called")
        => (pc = "raised" /\ error = "ConfigurationError")

\* C3: font_ok is false whenever some run, anywhere in the document, names a
\* font family other than Tenorite (letter case aside).
C3_ForeignFontAnywhereClearsFontOk ==
    (Formatted /\ \E pos \in RunPositions : ForeignFont(pos))
        => ~formatting_results.font_ok

\* C4: font_size_ok is false whenever some run of a non-heading paragraph,
\* anywhere in the document, has an explicit size other than 11pt; runs of
\* Heading 1/2/3 paragraphs never make it false.
C4_BodyOffSizeAnywhereClearsFontSizeOk ==
    Formatted =>
        (formatting_results.font_size_ok
            <=> ~\E pos \in RunPositions : OffSize(pos) /\ ~IsHeading(pos))

\* C5: an absent value is never a violation: font_ok is true when no run
\* names a font family, font_size_ok is true when no run gives a size, and so
\* both are true for a document whose runs inherit everything, paragraphs
\* without runs included.
C5_InheritedNeverFlagged ==
    Formatted =>
        /\ (\A pos \in RunPositions : RunAt(pos).name = <<>>)
                => formatting_results.font_ok
        /\ (\A pos \in RunPositions : RunAt(pos).size = 0)
                => formatting_results.font_size_ok

C5_Witness ==
    /\ Returned
    /\ \E p \in 1..Len(doc) : doc[p].runs = <<>>
    /\ RunPositions # {}
    /\ \A pos \in RunPositions : RunAt(pos).name = <<>> /\ RunAt(pos).size = 0
    /\ formatting_results.font_ok /\ formatting_results.font_size_ok

\* C6: for a non-empty required-section list, section_percentage lies in
\* [0,100] and is 100 exactly when every label of the list matches the
\* document.
C6_SectionPercentage ==
    SectionsDone =>
        /\ section_percentage.den > 0
        /\ section_percentage.num >= 0
        /\ section_percentage.num <= 100 * section_percentage.den
        /\ (section_percentage.num = 100 * section_percentage.den
                <=> \A i \in 1..Len(required_sections) : Matches(required_sections[i]))

C6_Witness ==
    /\ Returned
    /\ Len(required_sections) = 2
    /\ \A i \in 1..Len(required_sections) : Matches(required_sections[i])
    /\ section_percentage.num = 100 * section_percentage.den

C8_RecommendationOrder ==
    Returned =>
        /\ \A i, j \in 1..Len(recommendations) :
                i < j => RecRank(recommendations[i].kind) < RecRank(recommendations[j].kind)
        /\ "missing" \in RecKinds
                <=> \E i \in 1..Len(required_sections) : RecordedMissing(required_sections[i])
        /\ "spelling" \in RecKinds <=> formatting_results.spelling_issues # {}
        /\ "font" \in RecKinds <=> ~formatting_results.font_ok
        /\ "size" \in RecKinds <=> ~formatting_results.font_size_ok
        /\ \A i \in 1..Len(recommendations) :
                recommendations[i].kind = "missing" =>
                    recommendations[i].labels
                        = SelectSeq(required_sections, RecordedMissing)

C8_Witness ==
    /\ Returned
    /\ Len(recommendations) = 4
    /\ recommendations[1].kind = "missing"
    /\ Len(recommendations[1].labels) = 2
    /\ recommendations[3].kind = "font"

\* C9: the spelling score is max(0, 100 - 10 x the total number of distinct
\* unknown tokens), also when more tokens are unknown than the display cap
\* keeps.
C9_PenaltyOnTotalCount ==
    Scored =>
        spelling_score
            = (IF 100 - 10 * Cardinality(misspelled) > 0
               THEN 100 - 10 * Cardinality(misspelled) ELSE 0)

C9_Witness ==
    /\ Returned
    /\ Cardinality(misspelled) > 15
    /\ Cardinality(formatting_results.spelling_issues) = 15
    /\ spelling_score = 0

\* C10: each required label is recorded present exactly when, letter case
\* aside, it is a substring of the text of one paragraph, and the sections
\* mapping has one entry per required label, in the list's order.
C10_SectionsMapping ==
    SectionsDone =>
        /\ Len(section_results) = Len(required_sections)
        /\ \A i \in 1..Len(section_results) :
                /\ section_results[i].label = required_sections[i]
                /\ section_results[i].found <=> Matches(required_sections[i])

\* the label "Ab" split over the paragraphs "a" and "B" is absent, "B" is present
C10_Witness ==
    /\ Returned
    /\ doc = <<Para(<<"a">>, "Normal", <<>>), Para(<<"B">>, "Normal", <<>>)>>
    /\ section_results = <<[label |-> <<"A", "b">>, found |-> FALSE],
                           [label |-> <<"B">>, found |-> TRUE]>>

=============================================================================
